---------------------------- MODULE Spec2Model ----------------------------
(***************************************************************************)
(* A model of the package composition pipeline of immutos (src/main.go):   *)
(* downloadSelectedPackages / downloadPackage (the parallel downloader)    *)
(* and loadPackageDB (the parallel source and component fetch).            *)
(*                                                                         *)
(* Specifications:                                                         *)
(*   Spec      downloadSelectedPackages over a small SelectedDB            *)
(*   SpecLive  Spec with the fairness of the Go scheduler                  *)
(*   SpecPool  downloadSelectedPackages over more packages than the pool   *)
(*             has slots                                                   *)
(*   SpecLoad  loadPackageDB                                               *)
(***************************************************************************)
EXTENDS Integers, Sequences, FiniteSets

(***************************************************************************)
(* Bounds of the model.                                                    *)
(***************************************************************************)
NumPkgs == 2        \* packages of the SelectedDB under Spec
MaxURLs == 2        \* longest URL list of a package
NumBases == 2       \* distinct URL basenames (file names in scratch)
NumSources == 2     \* sources of the recipe under SpecLoad
MaxComps == 2       \* most components one source expands into
MaxTotal == 4       \* most components all sources together expand into
MaxDate == 2        \* distinct Release dates (1..MaxDate, after time.Time{})
NumKeys == 1        \* distinct (Name, Architecture, Version) keys
NumSHAs == 2        \* distinct SHA-256 values
PoolExtra == 1      \* packages beyond the pool limit under SpecPool
LivePkgs == 2       \* packages of the SelectedDB under SpecLive
LiveURLs == 1       \* longest URL list of a package under SpecLive
MaxPlatforms == 2   \* longest -p list under SpecBuild
NumPlatforms == 2   \* distinct linux platforms
NumNames == 2       \* distinct package names of the universe and the recipe
MaxSegs == 4        \* most path segments below a directory of the patterns

(***************************************************************************)
(* Program constants.                                                      *)
(***************************************************************************)
Limit == 10         \* g.SetLimit(10)

Bases == 1..NumBases

\* The URLs of a package are numbered 1..n; a basename is a number whose
\* order is the lexicographic order of the file names.
NoBase == 0
NoPkg == 0
NoTask == 0
ZeroTime == 0       \* time.Time{}
NoSHA == 0

VARIABLES
    \* ---- downloadSelectedPackages ----
    npkgs,          \* selectedDB.Len()
    nurls,          \* nurls[p] = len(pkg.URLs) of the p-th package in ForEach order
    submitted,      \* number of g.Go calls made by the ForEach callback
    pc,             \* pc[p]: position of the task of package p
    curURL,         \* the pkgURL of the running downloadPackage call
    curBase,        \* filepath.Base(url.Path) of the running downloadPackage call
    tried,          \* tried[p]: the URLs of p the loop has ranged over so far
    errs,           \* errs[p]: the joined errors, as the sequence of failed URLs
    accepted,       \* accepted[p]: the packagePath appended for p (NoBase if none)
    packagePaths,   \* the shared slice, in append order
    files,          \* the scratch directory: basename -> file content
    gerr,           \* errgroup: the first task error (NoPkg = nil)
    groupDone,      \* errgroup: the derived context was cancelled
    callerDone,     \* the caller's context was cancelled
    ret             \* the value returned by downloadSelectedPackages

dvars == <<npkgs, nurls, submitted, pc, curURL, curBase, tried, errs, accepted,
           packagePaths, files, gerr, groupDone, callerDone, ret>>

VARIABLES
    \* ---- loadPackageDB ----
    phase,          \* "sources", "components" or "returned"
    ssub,           \* number of g.Go calls of the source loop
    spc,            \* spc[s]: position of the task of source s
    sn,             \* sn[s]: len(sourceComponents) of the task of source s
    components,     \* the shared slice: components[i] = the source it came from
    serr,           \* first error of the source group (NoTask = nil)
    csub,           \* number of g.Go calls of the component loop
    cpc,            \* cpc[i]: position of the task of components[i]
    lastUpdated,    \* lastUpdated[i]: the Release date returned to task i
    sourceDateEpoch,\* the shared maximum
    packageDB,      \* key -> SHA-256 of the stored package (NoSHA if absent)
    cerr,           \* first error of the component group (NoTask = nil)
    lret,           \* the value returned by loadPackageDB
    maxDate,        \* history: the latest Release date any component returned
    mismatch,       \* history: AddAll met a key with a differing SHA-256
    addCalls        \* history: addCalls[i]: AddAll calls of the task of components[i]

lvars == <<phase, ssub, spc, sn, components, serr, csub, cpc, lastUpdated,
           sourceDateEpoch, packageDB, cerr, lret, maxDate, mismatch,
           addCalls>>

VARIABLES
    \* ---- the build Action and main ----
    argsValid,      \* input: the command line parses (required flags given)
    platformStrs,   \* input: the -p list, split at ","; 0 = a string that
                    \* platforms.Parse rejects or whose OS is not linux
    dev,            \* input: --dev
    options,        \* input: rx.Options: "nil", "keep" or "omit" (OmitRequired)
    include,        \* input: rx.Packages.Include
    exclude,        \* input: rx.Packages.Exclude
    envEpoch,       \* input: SOURCE_DATE_EPOCH of the environment (0 = unset)
    bpc,            \* position of the main goroutine
    pidx,           \* index of the platform of the current loop iteration
    runErr,         \* the error app.Run returns is not nil
    tempDir,        \* the scratch directory: its state and what is in it
    deferred,       \* the deferred os.RemoveAll(tempDir) is registered
    stageLog,       \* history: the stages invoked, <<platform index, stage>>
    stageFailed,    \* history: a stage of some platform returned an error
    universe,       \* packageDB: the names of its Priority "required" packages
    resolveArgs,    \* the arguments of the resolve.Resolve call of the iteration
    optsEpoch,      \* buildOpts.SourceDateEpoch
    platformOpts,   \* buildOpts.PlatformOpts
    maxLoaded,      \* history: the latest epoch loadPackageDB returned
    buildCalls,     \* history: number of b.Build calls
    buildArg,       \* history: the BuildOptions b.Build was called with
    exitCode        \* the exit code of the process (Running before it exits)

bvars == <<argsValid, platformStrs, dev, options, include, exclude, envEpoch,
           bpc, pidx, runErr, tempDir, deferred, stageLog, stageFailed,
           universe, resolveArgs, optsEpoch, platformOpts, maxLoaded,
           buildCalls, buildArg, exitCode>>

VARIABLES
    \* ---- slimify ----
    rootfs,         \* the paths present in the root filesystem
    rootfs0,        \* history: the paths present before slimify ran
    slimmed         \* slimify has run

svars == <<rootfs, rootfs0, slimmed>>

vars == <<dvars, lvars, bvars, svars>>

Sources == 1..NumSources
Slots == 1..MaxTotal
Comps == 1..Len(components)
Keys == 1..NumKeys

Pkgs == 1..npkgs

(***************************************************************************)
(* Pure helpers.                                                           *)
(***************************************************************************)
RECURSIVE Insert(_, _)
Insert(x, s) ==
    IF s = <<>> THEN <<x>>
    ELSE IF x <= Head(s) THEN <<x>> \o s
    ELSE <<Head(s)>> \o Insert(x, Tail(s))

\* The sort of line 608 left out
SlicesSortSkipped(s) == s

\* slices.Sort(packagePaths)
RECURSIVE SlicesSort(_)
SlicesSort(s) == IF s = <<>> THEN <<>> ELSE Insert(Head(s), SlicesSort(Tail(s)))

Range(s) == {s[i] : i \in 1..Len(s)}

IsSorted(s) == \A i \in 1..(Len(s) - 1) : s[i] <= s[i + 1]

\* An absent file, and the content states of a scratch file:
\*   "partial": created (truncated), body not completely written
\*   "full":    holds the complete body of the download of package `by`;
\*              good iff its SHA-256 equals the SHA256 field of `by`
\*   "mixed":   written by a download that was not the creator of the
\*              current file (two writers on one path)
NoFile == [st |-> "absent", by |-> NoPkg, good |-> FALSE]

\* ctx.Err() # nil for the context derived by errgroup.WithContext(ctx)
Cancelled == groupDone \/ callerDone

\* Tasks whose goroutine was started and has not returned
Active == {p \in Pkgs : pc[p] \in {"loop", "open"}}

\* A semaphore that admits one task too many
CanGoOffByOne(active) == active <= Limit

\* g.Go blocks while the semaphore of the group is full
CanGo(active) == active < Limit

\* util.Shuffle(pkg.URLs): the URLs are ranged over in some order, each once;
\* the next URL is any one not yet ranged over.
Remaining(p) == (1..nurls[p]) \ tried[p]

\* The error of the group overwritten by every returning task
LastErr(g, p, failed) == IF failed THEN p ELSE NoPkg

\* g.errOnce.Do: the first error returned by a task is the error of the group
FirstErr(g, p, failed) == IF failed /\ g = NoPkg THEN p ELSE g

\* The joined error replaced by the latest failure
JoinOverwrites(e, u) == <<u>>

\* errs = errors.Join(errs, err): errs is the list of the URLs that failed
Join(e, u) == Append(e, u)

\* The packages taken from the end of the iteration order
NextPkgReversed == npkgs - submitted

\* The package the ForEach callback is invoked for next: ForEach calls back
\* in its iteration order, one package after the other
NextPkg == submitted + 1

\* The range over the URLs not left on an accepted download
LoopContinuesAfterAccept(p) == TRUE

\* `break` at line 581: the range over the URLs is left once one is accepted
LoopContinues(p) == accepted[p] = NoBase

\* The joined errors kept after an accepted download
ErrsAfterAcceptKept(e) == e

\* errs = nil after an accepted download (line 580)
ErrsAfterAccept(e) == <<>>

(***************************************************************************)
(* Init: the state when downloadSelectedPackages is entered.               *)
(***************************************************************************)
InitFor(n, urls) ==
    /\ npkgs = n
    /\ nurls = urls
    /\ submitted = 0
    /\ pc = [p \in 1..n |-> "idle"]
    /\ curURL = [p \in 1..n |-> 0]
    /\ curBase = [p \in 1..n |-> NoBase]
    /\ tried = [p \in 1..n |-> {}]
    /\ errs = [p \in 1..n |-> <<>>]
    /\ accepted = [p \in 1..n |-> NoBase]
    /\ packagePaths = <<>>
    /\ files = [b \in Bases |-> NoFile]
    /\ gerr = NoPkg
    /\ groupDone = FALSE
    /\ callerDone = FALSE
    /\ ret = [state |-> "running", paths |-> <<>>]

\* The state when loadPackageDB is entered
LoadInit ==
    /\ phase = "sources"
    /\ ssub = 0
    /\ spc = [s \in Sources |-> "idle"]
    /\ sn = [s \in Sources |-> 0]
    /\ components = <<>>
    /\ serr = NoTask
    /\ csub = 0
    /\ cpc = [i \in Slots |-> "idle"]
    /\ lastUpdated = [i \in Slots |-> ZeroTime]
    /\ sourceDateEpoch = ZeroTime
    /\ packageDB = [k \in Keys |-> NoSHA]
    /\ cerr = NoTask
    /\ lret = [state |-> "running", db |-> [k \in Keys |-> NoSHA],
               epoch |-> ZeroTime]
    /\ maxDate = ZeroTime
    /\ mismatch = FALSE
    /\ addCalls = [i \in Slots |-> 0]

(***************************************************************************)
(* The build Action (lines 206-360) and main (lines 411-414).              *)
(***************************************************************************)
Running == -1       \* exitCode while the process runs
Immutos == 0        \* the package name "immutos"
Names == 1..NumNames
Platforms == 1..NumPlatforms
BadPlatform == 0
TempDirItself == 0  \* tempDir, as opposed to a directory below it
NoArgs == [seeds |-> <<>>, exclude |-> <<>>, called |-> FALSE]
NoBuild == [epoch |-> ZeroTime, opts |-> <<>>]
NoTempDir == [st |-> "none", items |-> {}]

\* The lists a recipe gives for packages.include and packages.exclude
NameLists == {<<>>} \cup {<<n>> : n \in Names}

\* strings.Split never returns an empty list
PlatformLists ==
    UNION {[1..n -> {BadPlatform} \cup Platforms] : n \in 1..MaxPlatforms}

\* The state when main calls app.Run, for a given command line, recipe and
\* environment
BuildInitFor(valid, strs, d, o, inc, exc, env) ==
    /\ argsValid = valid
    /\ platformStrs = strs
    /\ dev = d
    /\ options = o
    /\ include = inc
    /\ exclude = exc
    /\ envEpoch = env
    /\ bpc = "args"
    /\ pidx = 0
    /\ runErr = FALSE
    /\ tempDir = NoTempDir
    /\ deferred = FALSE
    /\ stageLog = <<>>
    /\ stageFailed = FALSE
    /\ universe = {}
    /\ resolveArgs = NoArgs
    /\ optsEpoch = ZeroTime
    /\ platformOpts = <<>>
    /\ maxLoaded = ZeroTime
    /\ buildCalls = 0
    /\ buildArg = NoBuild
    /\ exitCode = Running

\* The build Action is not under study
BuildIdle == BuildInitFor(TRUE, <<1>>, FALSE, "nil", <<>>, <<>>, 0)

BuildInit ==
    \E valid \in BOOLEAN, strs \in PlatformLists, d \in BOOLEAN,
       o \in {"nil", "keep", "omit"}, inc \in NameLists, exc \in NameLists,
       env \in 0..MaxDate :
        BuildInitFor(valid, strs, d, o, inc, exc, env)

\* slimify is not under study
SlimIdle ==
    /\ rootfs = {}
    /\ rootfs0 = {}
    /\ slimmed = TRUE

Init ==
    /\ \E urls \in [1..NumPkgs -> 0..MaxURLs] : InitFor(NumPkgs, urls)
    /\ LoadInit
    /\ BuildIdle
    /\ SlimIdle

(***************************************************************************)
(* Actions.                                                                *)
(***************************************************************************)

\* selectedDB.ForEach callback: g.Go(func() error {...}) for the next package
Go ==
    /\ ret.state = "running"
    /\ submitted < npkgs
    /\ CanGo(Cardinality(Active))
    /\ submitted' = submitted + 1
    /\ pc' = [pc EXCEPT ![NextPkg] = "loop"]
    /\ UNCHANGED <<lvars, bvars, svars>>
    /\ UNCHANGED <<npkgs, nurls, curURL, curBase, tried, errs, accepted,
                   packagePaths, files, gerr, groupDone, callerDone, ret>>

\* downloadPackage, lines 614-637, for the next URL of the loop: the request
\* fails (or os.Create fails) and the error is joined, or the file
\* scratch/<basename> is created (truncated) and left open.  A request on a
\* cancelled context fails unless the caching transport installed at lines
\* 214-216 answers it from the disk cache, which does not consult the context.
StartAttempt(p) ==
    /\ pc[p] = "loop"
    /\ LoopContinues(p)
    /\ \E u \in Remaining(p) :
         /\ tried' = [tried EXCEPT ![p] = @ \cup {u}]
         /\ \/ /\ errs' = [errs EXCEPT ![p] = Join(errs[p], u)]
               /\ UNCHANGED <<pc, curURL, curBase, files>>
            \/ /\ \E cached \in BOOLEAN : cached \/ ~Cancelled
               /\ \E b \in Bases :
                    /\ files' = [files EXCEPT ![b] =
                                    [st |-> "partial", by |-> p, good |-> FALSE]]
                    /\ curBase' = [curBase EXCEPT ![p] = b]
               /\ curURL' = [curURL EXCEPT ![p] = u]
               /\ pc' = [pc EXCEPT ![p] = "open"]
               /\ UNCHANGED errs
    /\ UNCHANGED <<lvars, bvars, svars>>
    /\ UNCHANGED <<npkgs, nurls, submitted, accepted, packagePaths, gerr,
                   groupDone, callerDone, ret>>

\* The content of scratch/<b> after the download of p wrote `res` into it
Written(f, p, res) ==
    IF f.by = p /\ f.st = "partial"
    THEN IF res = "readerr" THEN f
         ELSE [st |-> "full", by |-> p, good |-> (res = "ok")]
    ELSE [f EXCEPT !.st = "mixed", !.good = FALSE]

\* downloadPackage, lines 639-649, and the loop body after it: io.Copy and
\* hr.Verify; on success the path is appended and the loop is left.
FinishAttempt(p) ==
    /\ pc[p] = "open"
    /\ \E res \in {"ok", "readerr", "badhash"} :
         /\ files' = [files EXCEPT ![curBase[p]] = Written(@, p, res)]
         /\ IF res = "ok"
            THEN /\ packagePaths' = Append(packagePaths, curBase[p])
                 /\ accepted' = [accepted EXCEPT ![p] = curBase[p]]
                 /\ errs' = [errs EXCEPT ![p] = ErrsAfterAccept(@)]
            ELSE /\ errs' = [errs EXCEPT ![p] = Join(@, curURL[p])]
                 /\ UNCHANGED <<packagePaths, accepted>>
    /\ pc' = [pc EXCEPT ![p] = "loop"]
    /\ curURL' = [curURL EXCEPT ![p] = 0]
    /\ curBase' = [curBase EXCEPT ![p] = NoBase]
    /\ UNCHANGED <<lvars, bvars, svars>>
    /\ UNCHANGED <<npkgs, nurls, submitted, tried, gerr, groupDone, callerDone,
                   ret>>

\* The loop is over (break, or no URL left): lines 584-588 and the errgroup
\* bookkeeping of a returning task (first error wins and cancels the context).
TaskReturn(p) ==
    /\ pc[p] = "loop"
    /\ ~LoopContinues(p) \/ Remaining(p) = {}
    /\ pc' = [pc EXCEPT ![p] = "done"]
    /\ gerr' = FirstErr(gerr, p, errs[p] # <<>>)
    /\ groupDone' = (groupDone \/ errs[p] # <<>>)
    /\ UNCHANGED <<lvars, bvars, svars>>
    /\ UNCHANGED <<npkgs, nurls, submitted, curURL, curBase, tried, errs,
                   accepted, packagePaths, files, callerDone, ret>>

\* The caller's context is cancelled while the download runs
CallerCancel ==
    /\ ret.state = "running"
    /\ ~callerDone
    /\ callerDone' = TRUE
    /\ UNCHANGED <<lvars, bvars, svars>>
    /\ UNCHANGED <<npkgs, nurls, submitted, pc, curURL, curBase, tried, errs,
                   accepted, packagePaths, files, gerr, groupDone, ret>>

\* g.Wait() and lines 596-610
Wait ==
    /\ ret.state = "running"
    /\ submitted = npkgs
    /\ \A p \in Pkgs : pc[p] = "done"
    /\ groupDone' = TRUE
    /\ ret' = IF gerr # NoPkg
              THEN [state |-> "err", paths |-> <<>>]
              ELSE [state |-> "ok", paths |-> SlicesSort(packagePaths)]
    /\ UNCHANGED <<lvars, bvars, svars>>
    /\ UNCHANGED <<npkgs, nurls, submitted, pc, curURL, curBase, tried, errs,
                   accepted, packagePaths, files, gerr, callerDone>>

Next ==
    \/ Go
    \/ \E p \in Pkgs : StartAttempt(p)
    \/ \E p \in Pkgs : FinishAttempt(p)
    \/ \E p \in Pkgs : TaskReturn(p)
    \/ CallerCancel
    \/ Wait


(***************************************************************************)
(* loadPackageDB.                                                          *)
(***************************************************************************)
Max(a, b) == IF a >= b THEN a ELSE b

RECURSIVE SumOver(_, _)
SumOver(f, S) ==
    IF S = {} THEN 0
    ELSE LET x == CHOOSE y \in S : TRUE IN f[x] + SumOver(f, S \ {x})

\* The recipe's sources expand into at most MaxTotal components: source s
\* may return n components if every other source can still return one.
FitsTotal(s, n) ==
    n + SumOver([t \in Sources |-> Max(sn[t], 1)], Sources \ {s}) <= MaxTotal

\* The error of the group not looked at
WaitFailedIgnored(e) == FALSE

\* `if err != nil` after g.Wait(), lines 482 and 533: the group returns the
\* first error of its tasks
WaitFailed(e) == e # NoTask

\* A wait that returns as soon as one task has returned
SourcesReturnedEarly == \E s \in Sources : spc[s] \in {"done", "failed"}

\* g.Wait() of the source group returns when every task has returned
SourcesReturned ==
    /\ ssub = NumSources
    /\ \A s \in Sources : spc[s] \in {"done", "failed"}

\* PackageDB.AddAll: the merge policy of the database.  A package whose key
\* is stored with a differing SHA-256 makes the bulk add fail and leaves the
\* database unchanged; otherwise the package is stored (URLs merged).
AddAllFails(db, k, sha) == db[k] # NoSHA /\ db[k] # sha

AddAll(db, k, sha) ==
    IF AddAllFails(db, k, sha) THEN db ELSE [db EXCEPT ![k] = sha]

\* An append that starts from the empty slice it read before another task
\* appended
AppendedUnlocked(c, s, n) == [i \in 1..n |-> s]

\* components = append(components, sourceComponents...) with componentsMu
\* held, lines 465-467: the n components of source s follow those in c
Appended(c, s, n) == c \o [i \in 1..n |-> s]

\* for _, sourceConf := range sourceConfs { g.Go(...) }
SourceGo ==
    /\ phase = "sources"
    /\ ssub < NumSources
    /\ ssub' = ssub + 1
    /\ spc' = [spc EXCEPT ![ssub + 1] = "run"]
    /\ UNCHANGED <<dvars, bvars, svars>>
    /\ UNCHANGED <<phase, sn, components, serr, csub, cpc, lastUpdated,
                   sourceDateEpoch, packageDB, cerr, lret, maxDate, mismatch,
                   addCalls>>

\* Lines 450-463: source.NewSource, arch.Parse and s.Components fail, or
\* s.Components returns the components of the source.
SourceFetch(s) ==
    /\ spc[s] = "run"
    /\ \/ /\ spc' = [spc EXCEPT ![s] = "failed"]
          /\ serr' = IF serr = NoTask THEN s ELSE serr
          /\ UNCHANGED sn
       \/ /\ \E n \in 1..MaxComps :
               /\ FitsTotal(s, n)
               /\ sn' = [sn EXCEPT ![s] = n]
          /\ spc' = [spc EXCEPT ![s] = "got"]
          /\ UNCHANGED serr
    /\ UNCHANGED <<dvars, bvars, svars>>
    /\ UNCHANGED <<phase, ssub, components, csub, cpc, lastUpdated,
                   sourceDateEpoch, packageDB, cerr, lret, maxDate, mismatch,
                   addCalls>>

\* Lines 465-469: components = append(components, sourceComponents...)
\* under componentsMu, and the task returns nil.
SourceAppend(s) ==
    /\ spc[s] = "got"
    /\ components' = Appended(components, s, sn[s])
    /\ spc' = [spc EXCEPT ![s] = "done"]
    /\ UNCHANGED <<dvars, bvars, svars>>
    /\ UNCHANGED <<phase, ssub, sn, serr, csub, cpc, lastUpdated,
                   sourceDateEpoch, packageDB, cerr, lret, maxDate, mismatch,
                   addCalls>>

\* Lines 473-487: g.Wait() of the source group and the early return
SourceWait ==
    /\ phase = "sources"
    /\ SourcesReturned
    /\ IF WaitFailed(serr)
       THEN /\ phase' = "returned"
            /\ lret' = [state |-> "err", db |-> [k \in Keys |-> NoSHA],
                        epoch |-> ZeroTime]
       ELSE /\ phase' = "components"
            /\ UNCHANGED lret
    /\ UNCHANGED <<dvars, bvars, svars>>
    /\ UNCHANGED <<ssub, spc, sn, components, serr, csub, cpc, lastUpdated,
                   sourceDateEpoch, packageDB, cerr, maxDate, mismatch,
                   addCalls>>

\* for _, component := range components { g.Go(...) }
ComponentGo ==
    /\ phase = "components"
    /\ csub < Len(components)
    /\ csub' = csub + 1
    /\ cpc' = [cpc EXCEPT ![csub + 1] = "fetch"]
    /\ UNCHANGED <<dvars, bvars, svars>>
    /\ UNCHANGED <<phase, ssub, spc, sn, components, serr, lastUpdated,
                   sourceDateEpoch, packageDB, cerr, lret, maxDate, mismatch,
                   addCalls>>

\* Lines 509-512: component.Packages fails, or returns the packages and the
\* Release date of the component.
ComponentFetch(i) ==
    /\ cpc[i] = "fetch"
    /\ \/ /\ cpc' = [cpc EXCEPT ![i] = "failed"]
          /\ cerr' = IF cerr = NoTask THEN i ELSE cerr
          /\ UNCHANGED <<lastUpdated, maxDate>>
       \/ /\ \E d \in 1..MaxDate :
               /\ lastUpdated' = [lastUpdated EXCEPT ![i] = d]
               /\ maxDate' = Max(maxDate, d)
          /\ cpc' = [cpc EXCEPT ![i] = "compare"]
          /\ UNCHANGED cerr
    /\ UNCHANGED <<dvars, bvars, svars>>
    /\ UNCHANGED <<phase, ssub, spc, sn, components, serr, csub,
                   sourceDateEpoch, packageDB, lret, mismatch,
                   addCalls>>

\* Line 514: if lastUpdated.After(sourceDateEpoch), a read of the shared
\* variable with no lock held
ComponentCompare(i) ==
    /\ cpc[i] = "compare"
    /\ cpc' = [cpc EXCEPT ![i] = IF lastUpdated[i] > sourceDateEpoch
                                  THEN "assign" ELSE "add"]
    /\ UNCHANGED <<dvars, bvars, svars>>
    /\ UNCHANGED <<phase, ssub, spc, sn, components, serr, csub, lastUpdated,
                   sourceDateEpoch, packageDB, cerr, lret, maxDate, mismatch,
                   addCalls>>

\* Line 515: sourceDateEpoch = lastUpdated, a write with no lock held
ComponentAssign(i) ==
    /\ cpc[i] = "assign"
    /\ sourceDateEpoch' = lastUpdated[i]
    /\ cpc' = [cpc EXCEPT ![i] = "add"]
    /\ UNCHANGED <<dvars, bvars, svars>>
    /\ UNCHANGED <<phase, ssub, spc, sn, components, serr, csub, lastUpdated,
                   packageDB, cerr, lret, maxDate, mismatch,
                   addCalls>>

\* Lines 518-520: packageDB.AddAll(componentPackages), whose outcome is not
\* looked at, and the task returns nil.  The component carries a package
\* with some key and some SHA-256.
ComponentAddAll(i) ==
    /\ cpc[i] = "add"
    /\ \E k \in Keys, sha \in 1..NumSHAs :
         /\ packageDB' = AddAll(packageDB, k, sha)
         /\ mismatch' = (mismatch \/ AddAllFails(packageDB, k, sha))
    /\ cpc' = [cpc EXCEPT ![i] = "done"]
    /\ lastUpdated' = [lastUpdated EXCEPT ![i] = ZeroTime]
    /\ addCalls' = [addCalls EXCEPT ![i] = @ + 1]
    /\ UNCHANGED <<dvars, bvars, svars>>
    /\ UNCHANGED <<phase, ssub, spc, sn, components, serr, csub,
                   sourceDateEpoch, cerr, lret, maxDate>>

\* Lines 524-538: g.Wait() of the component group and the return
ComponentWait ==
    /\ phase = "components"
    /\ csub = Len(components)
    /\ \A i \in Comps : cpc[i] \in {"done", "failed"}
    /\ phase' = "returned"
    /\ lret' = IF WaitFailed(cerr)
               THEN [state |-> "err", db |-> [k \in Keys |-> NoSHA],
                     epoch |-> ZeroTime]
               ELSE [state |-> "ok", db |-> packageDB,
                     epoch |-> sourceDateEpoch]
    /\ UNCHANGED <<dvars, bvars, svars>>
    /\ UNCHANGED <<ssub, spc, sn, components, serr, csub, cpc, lastUpdated,
                   sourceDateEpoch, packageDB, cerr, maxDate, mismatch,
                   addCalls>>

NextLoad ==
    \/ SourceGo
    \/ \E s \in Sources : SourceFetch(s)
    \/ \E s \in Sources : SourceAppend(s)
    \/ SourceWait
    \/ ComponentGo
    \/ \E i \in Slots : ComponentFetch(i)
    \/ \E i \in Slots : ComponentCompare(i)
    \/ \E i \in Slots : ComponentAssign(i)
    \/ \E i \in Slots : ComponentAddAll(i)
    \/ ComponentWait

InitLoad ==
    /\ InitFor(0, <<>>)
    /\ LoadInit
    /\ BuildIdle
    /\ SlimIdle

SpecLoad == InitLoad /\ [][NextLoad]_vars


(***************************************************************************)
(* Actions of the build Action and of main.                                *)
(***************************************************************************)
BuildInputs == <<argsValid, platformStrs, dev, options, include, exclude,
                 envEpoch>>

\* The scratch directory left as it is
RemoveAllSkipped(t) == t

\* os.RemoveAll(tempDir), line 224
RemoveAll(t) == [st |-> "removed", items |-> {}]

\* Every error exits with 0
ExitCodeAlwaysZero(err) == 0

\* main, lines 411-414: os.Exit(1) on any error of app.Run, else return
ExitCode(err) == IF err THEN 1 ELSE 0

\* The loop left after its first iteration
LoopDoneEarly(i) == TRUE

\* The range over the platform list, line 275, is over after iteration i
LoopDone(i) == i >= Len(platformStrs)

\* platformTempDir, line 326: the directory of tempDir named after the
\* platform
PlatformTempDir(pl) == pl

\* The epoch of the platform loaded last
EpochLatest(cur, e) == e

\* Lines 295-297: buildOpts.SourceDateEpoch after a platform was loaded
EpochAfter(cur, e) == IF e > cur THEN e ELSE cur

\* The required packages seeded whatever the recipe says
OmitRequiredIgnored(o) == FALSE

\* Line 307: rx.Options != nil && rx.Options.OmitRequired
OmitRequired(o) == o = "omit"

\* packageDB.ForEach, lines 308-314: the names of the Priority "required"
\* packages, in iteration order
RequiredNames(univ) ==
    SelectSeq([n \in Names |-> n], LAMBDA n : n \in univ)

\* Lines 299-320: the second argument of resolve.Resolve
Seeds(d, o, univ, inc) ==
    (IF d THEN <<>> ELSE <<Immutos>>)
        \o (IF OmitRequired(o) THEN <<>> ELSE RequiredNames(univ))
        \o inc

\* A return statement of the Action with a non-nil error
ReturnErr ==
    /\ runErr' = TRUE
    /\ bpc' = "return"

\* app.Run parses os.Args: a command line it rejects (a missing required
\* flag, an unknown flag) is an error of app.Run, and the Action is not run
ParseArgs ==
    /\ bpc = "args"
    /\ IF argsValid
       THEN bpc' = "before" /\ UNCHANGED runErr
       ELSE bpc' = "exit" /\ runErr' = TRUE
    /\ UNCHANGED <<dvars, lvars, svars, BuildInputs>>
    /\ UNCHANGED <<pidx, tempDir, deferred, stageLog, stageFailed, universe,
                   resolveArgs, optsEpoch, platformOpts, maxLoaded, buildCalls,
                   buildArg, exitCode>>

\* Before, line 204: initLogger, initCacheDir, initStateDir, initTelemetry
Before ==
    /\ bpc = "before"
    /\ \E ok \in BOOLEAN :
         IF ok
         THEN bpc' = "cache" /\ UNCHANGED runErr
         ELSE bpc' = "exit" /\ runErr' = TRUE
    /\ UNCHANGED <<dvars, lvars, svars, BuildInputs>>
    /\ UNCHANGED <<pidx, tempDir, deferred, stageLog, stageFailed, universe,
                   resolveArgs, optsEpoch, platformOpts, maxLoaded, buildCalls,
                   buildArg, exitCode>>

\* Lines 208-216: the disk cache and the caching HTTP client
CreateCache ==
    /\ bpc = "cache"
    /\ \E ok \in BOOLEAN :
         IF ok
         THEN bpc' = "mktemp" /\ UNCHANGED runErr
         ELSE ReturnErr
    /\ UNCHANGED <<dvars, lvars, svars, BuildInputs>>
    /\ UNCHANGED <<pidx, tempDir, deferred, stageLog, stageFailed, universe,
                   resolveArgs, optsEpoch, platformOpts, maxLoaded, buildCalls,
                   buildArg, exitCode>>

\* Lines 219-225: os.MkdirTemp and the deferred os.RemoveAll(tempDir)
MkdirTemp ==
    /\ bpc = "mktemp"
    /\ \E ok \in BOOLEAN :
         IF ok
         THEN /\ tempDir' = [st |-> "present", items |-> {}]
              /\ deferred' = TRUE
              /\ bpc' = "setup"
              /\ UNCHANGED runErr
         ELSE /\ ReturnErr
              /\ UNCHANGED <<tempDir, deferred>>
    /\ UNCHANGED <<dvars, lvars, svars, BuildInputs>>
    /\ UNCHANGED <<pidx, stageLog, stageFailed, universe, resolveArgs,
                   optsEpoch, platformOpts, maxLoaded, buildCalls, buildArg,
                   exitCode>>

\* Lines 228-273: the certs directory, the recipe, the BuildKit daemon, the
\* second stage binary and buildOpts; then the loop is entered
Setup ==
    /\ bpc = "setup"
    /\ \E ok \in BOOLEAN :
         IF ok
         THEN /\ bpc' = "parse"
              /\ pidx' = 1
              /\ UNCHANGED runErr
         ELSE /\ ReturnErr
              /\ UNCHANGED pidx
    /\ UNCHANGED <<dvars, lvars, svars, BuildInputs>>
    /\ UNCHANGED <<tempDir, deferred, stageLog, stageFailed, universe,
                   resolveArgs, optsEpoch, platformOpts, maxLoaded, buildCalls,
                   buildArg, exitCode>>

\* Lines 276-283: platforms.Parse and the check of the OS
PlatformParse ==
    /\ bpc = "parse"
    /\ IF platformStrs[pidx] # BadPlatform
       THEN bpc' = "load" /\ UNCHANGED runErr
       ELSE ReturnErr
    /\ UNCHANGED <<dvars, lvars, svars, BuildInputs>>
    /\ UNCHANGED <<pidx, tempDir, deferred, stageLog, stageFailed, universe,
                   resolveArgs, optsEpoch, platformOpts, maxLoaded, buildCalls,
                   buildArg, exitCode>>

\* A stage of the current platform returned an error
StageErr ==
    /\ ReturnErr
    /\ stageFailed' = TRUE

\* Lines 290-297: loadPackageDB returns an error, or a package universe and
\* its epoch, and the epoch is folded into buildOpts.SourceDateEpoch
Load ==
    /\ bpc = "load"
    /\ stageLog' = Append(stageLog, <<pidx, "load">>)
    /\ \/ /\ StageErr
          /\ UNCHANGED <<universe, optsEpoch, maxLoaded>>
       \/ \E e \in 0..MaxDate, univ \in SUBSET Names :
            /\ universe' = univ
            /\ optsEpoch' = EpochAfter(optsEpoch, e)
            /\ maxLoaded' = Max(maxLoaded, e)
            /\ bpc' = "resolve"
            /\ UNCHANGED <<runErr, stageFailed>>
    /\ UNCHANGED <<dvars, lvars, svars, BuildInputs>>
    /\ UNCHANGED <<pidx, tempDir, deferred, resolveArgs, platformOpts,
                   buildCalls, buildArg, exitCode>>

\* Lines 299-324: the seeds are collected and resolve.Resolve is called
Resolve ==
    /\ bpc = "resolve"
    /\ stageLog' = Append(stageLog, <<pidx, "resolve">>)
    /\ resolveArgs' = [seeds |-> Seeds(dev, options, universe, include),
                       exclude |-> exclude, called |-> TRUE]
    /\ \E ok \in BOOLEAN :
         IF ok
         THEN bpc' = "mkdir" /\ UNCHANGED <<runErr, stageFailed>>
         ELSE StageErr
    /\ UNCHANGED <<dvars, lvars, svars, BuildInputs>>
    /\ UNCHANGED <<pidx, tempDir, deferred, universe, optsEpoch, platformOpts,
                   maxLoaded, buildCalls, buildArg, exitCode>>

\* Lines 326-329: os.MkdirAll(platformTempDir)
MkPlatformDir ==
    /\ bpc = "mkdir"
    /\ \E ok \in BOOLEAN :
         IF ok
         THEN /\ tempDir' = [tempDir EXCEPT !.items = @ \cup
                    {<<PlatformTempDir(platformStrs[pidx]), "dir">>}]
              /\ bpc' = "download"
              /\ UNCHANGED runErr
         ELSE /\ ReturnErr
              /\ UNCHANGED tempDir
    /\ UNCHANGED <<dvars, lvars, svars, BuildInputs>>
    /\ UNCHANGED <<pidx, deferred, stageLog, stageFailed, universe,
                   resolveArgs, optsEpoch, platformOpts, maxLoaded, buildCalls,
                   buildArg, exitCode>>

\* Line 333: downloadSelectedPackages(c.Context, platformTempDir, selectedDB)
\* returns the paths of the files it left in platformTempDir, or an error
\* with whatever its workers left there
Download ==
    /\ bpc = "download"
    /\ stageLog' = Append(stageLog, <<pidx, "download">>)
    /\ \E left \in SUBSET {"debs", "partial"} :
         /\ tempDir' = [tempDir EXCEPT !.items = @ \cup
               {<<PlatformTempDir(platformStrs[pidx]), k>> : k \in left}]
         /\ IF left = {"debs"}
            THEN bpc' = "unpack" /\ UNCHANGED <<runErr, stageFailed>>
            ELSE StageErr
    /\ UNCHANGED <<dvars, lvars, svars, BuildInputs>>
    /\ UNCHANGED <<pidx, deferred, universe, resolveArgs, optsEpoch,
                   platformOpts, maxLoaded, buildCalls, buildArg, exitCode>>

\* The directory unpack.Unpack writes its archives to: the one it is given
UnpackOutputDir(dir) == dir

\* Lines 340-351: unpack.Unpack, the PlatformBuildOptions entry of the
\* platform, and the end of the loop iteration
Unpack ==
    /\ bpc = "unpack"
    /\ stageLog' = Append(stageLog, <<pidx, "unpack">>)
    /\ LET dir == PlatformTempDir(platformStrs[pidx]) IN
       \/ /\ StageErr
          /\ UNCHANGED <<pidx, tempDir, platformOpts, universe, resolveArgs>>
       \/ /\ tempDir' = [tempDir EXCEPT !.items = @ \cup
                            {<<UnpackOutputDir(dir), "archives">>}]
          /\ platformOpts' = Append(platformOpts,
                [platform |-> platformStrs[pidx], dir |-> dir,
                 dpkg |-> UnpackOutputDir(dir), data |-> UnpackOutputDir(dir)])
          /\ universe' = {}
          /\ resolveArgs' = NoArgs
          /\ IF LoopDone(pidx)
             THEN bpc' = "build" /\ UNCHANGED pidx
             ELSE bpc' = "parse" /\ pidx' = pidx + 1
          /\ UNCHANGED <<runErr, stageFailed>>
    /\ UNCHANGED <<dvars, lvars, svars, BuildInputs>>
    /\ UNCHANGED <<deferred, optsEpoch, maxLoaded, buildCalls, buildArg,
                   exitCode>>

\* Lines 355-359: b.Build(c.Context, buildOpts) and the return after it
Build ==
    /\ bpc = "build"
    /\ buildCalls' = buildCalls + 1
    /\ buildArg' = [epoch |-> optsEpoch, opts |-> platformOpts]
    /\ \E ok \in BOOLEAN : runErr' = ~ok
    /\ bpc' = "return"
    /\ UNCHANGED <<dvars, lvars, svars, BuildInputs>>
    /\ UNCHANGED <<pidx, tempDir, deferred, stageLog, stageFailed, universe,
                   resolveArgs, optsEpoch, platformOpts, maxLoaded, exitCode>>

\* The Action returns: its deferred calls run (lines 223-225, 238)
ActionReturn ==
    /\ bpc = "return"
    /\ tempDir' = IF deferred THEN RemoveAll(tempDir) ELSE tempDir
    /\ bpc' = "exit"
    /\ UNCHANGED <<dvars, lvars, svars, BuildInputs>>
    /\ UNCHANGED <<pidx, runErr, deferred, stageLog, stageFailed, universe,
                   resolveArgs, optsEpoch, platformOpts, maxLoaded, buildCalls,
                   buildArg, exitCode>>

\* app.Run returns (After, line 205, returns nil) and main exits, 411-414
Exit ==
    /\ bpc = "exit"
    /\ exitCode' = ExitCode(runErr)
    /\ bpc' = "exited"
    /\ UNCHANGED <<dvars, lvars, svars, BuildInputs>>
    /\ UNCHANGED <<pidx, runErr, tempDir, deferred, stageLog, stageFailed,
                   universe, resolveArgs, optsEpoch, platformOpts, maxLoaded,
                   buildCalls, buildArg>>

NextBuild ==
    \/ ParseArgs
    \/ Before
    \/ CreateCache
    \/ MkdirTemp
    \/ Setup
    \/ PlatformParse
    \/ Load
    \/ Resolve
    \/ MkPlatformDir
    \/ Download
    \/ Unpack
    \/ Build
    \/ ActionReturn
    \/ Exit

InitBuild ==
    /\ InitFor(0, <<>>)
    /\ LoadInit
    /\ BuildInit
    /\ SlimIdle

SpecBuild == InitBuild /\ [][NextBuild]_vars

(***************************************************************************)
(* slimify with the shipped pattern file .slimify.  A path and a pattern   *)
(* are sequences of atoms: the directory a pattern starts with, path       *)
(* segments, "/", and in a pattern "*".  Paths name files, not             *)
(* directories.                                                            *)
(***************************************************************************)
Doc == "/usr/share/doc/"
Locale == "/usr/share/locale/"
Man == "/usr/share/man/"
GnomeHelp == "/usr/share/gnome/help/"
Omf == "/usr/share/omf/"
Bin == "/usr/bin/"

\* .slimify, lines 42-53: the delete patterns
DeleteLines ==
    << <<Doc, "*">>,
       <<"/usr/share/info/", "*">>,
       <<"/usr/share/linda/", "*">>,
       <<"/usr/share/lintian/overrides/", "*">>,
       <<Locale, "*">>,
       <<Man, "*">>,
       <<Doc, "kde", "/", "HTML", "/", "*", "/", "*">>,
       <<GnomeHelp, "*", "/", "*">>,
       <<Locale, "*">>,
       <<Omf, "*", "/", "*", "-", "*", ".emf">> >>

\* No line of the file starts with "!"
PreserveLinesNone == <<>>

\* .slimify, lines 58-68: the preserve patterns, the lines that start with
\* "!", without it
PreserveLines ==
    << <<Doc, "*", "/", "copyright">>,
       <<Doc, "kde", "/", "HTML", "/", "C", "/", "*">>,
       <<GnomeHelp, "*", "/", "C", "/", "*">>,
       <<Locale, "all_languages">>,
       <<Locale, "currency", "/", "*">>,
       <<Locale, "l10n", "/", "*">>,
       <<Locale, "languages">>,
       <<Locale, "locale.alias">>,
       <<Omf, "*", "/", "*", "-", "C", ".emf">> >>

\* Glob matching: "*" stands for any string, "/" included, as it does for
\* dpkg's path-exclude and find's -path, where the pattern file comes from
RECURSIVE Match(_, _)
Match(pat, path) ==
    IF pat = <<>> THEN path = <<>>
    ELSE IF Head(pat) = "*"
         THEN \/ Match(Tail(pat), path)
              \/ path # <<>> /\ Match(pat, Tail(path))
         ELSE /\ path # <<>>
              /\ Head(path) = Head(pat)
              /\ Match(Tail(pat), Tail(path))

MatchesAny(lines, path) == \E i \in 1..Len(lines) : Match(lines[i], path)

\* A path is removed iff it matches a delete pattern and no preserve pattern
Removed(path) ==
    MatchesAny(DeleteLines, path) /\ ~MatchesAny(PreserveLines, path)

\* The files of the root filesystem that are considered
Segs == {"pkg", "copyright", "locale.alias", "kde", "HTML", "C", "currency"}

RECURSIVE Below(_)
Below(n) ==
    IF n = 1 THEN {<<s>> : s \in Segs}
    ELSE {t \o <<"/", s>> : t \in Below(n - 1), s \in Segs}

SlimPaths ==
    {<<d>> \o t : d \in {Doc, Locale, Man, GnomeHelp, Bin},
                  t \in UNION {Below(n) : n \in 1..MaxSegs}}
    \cup {<<Omf, "pkg", "/", "pkg", "-", l, ".emf">> : l \in {"C", "de"}}

SlimInit ==
    /\ \E path \in SlimPaths :
         /\ rootfs = {path}
         /\ rootfs0 = {path}
    /\ slimmed = FALSE

\* slimify runs over the root filesystem
Slimify ==
    /\ ~slimmed
    /\ rootfs' = {path \in rootfs : ~Removed(path)}
    /\ slimmed' = TRUE
    /\ UNCHANGED <<dvars, lvars, bvars, rootfs0>>

NextSlim == Slimify

InitSlim ==
    /\ InitFor(0, <<>>)
    /\ LoadInit
    /\ BuildIdle
    /\ SlimInit

SpecSlim == InitSlim /\ [][NextSlim]_vars

(***************************************************************************)
(* Specifications.                                                         *)
(***************************************************************************)
Spec == Init /\ [][Next]_vars

\* The goroutines of the group and the calling goroutine are scheduled
\* fairly, and every request and every read returns; the caller need not
\* cancel.
Fairness ==
    /\ WF_vars(Go)
    /\ WF_vars(Wait)
    /\ \A p \in 1..LivePkgs :
         /\ WF_vars(StartAttempt(p))
         /\ WF_vars(FinishAttempt(p))
         /\ WF_vars(TaskReturn(p))

InitLive ==
    /\ \E urls \in [1..LivePkgs -> 0..LiveURLs] : InitFor(LivePkgs, urls)
    /\ LoadInit
    /\ BuildIdle
    /\ SlimIdle

SpecLive == InitLive /\ [][Next]_vars /\ Fairness

\* More packages than the pool has slots.  A task holds its slot from g.Go
\* until it returns, whatever its loop does, so only the first package is
\* given a URL to range over.
InitPool ==
    /\ InitFor(Limit + PoolExtra,
               [p \in 1..(Limit + PoolExtra) |-> IF p = 1 THEN 1 ELSE 0])
    /\ LoadInit
    /\ BuildIdle
    /\ SlimIdle

SpecPool == InitPool /\ [][Next]_vars

(***************************************************************************)
(* Properties of downloadSelectedPackages.                                 *)
(***************************************************************************)
Returned == ret.state # "running"

\* The task of p returned an error: the download of p is fatal
TaskFailed(p) == pc[p] = "done" /\ errs[p] # <<>>

\* Every URL of p was attempted and failed
AllURLsFailed(p) ==
    /\ accepted[p] = NoBase
    /\ nurls[p] >= 1
    /\ Range(errs[p]) = 1..nurls[p]

\* C1: mirror fallback.  The download of a package is fatal only if every
\* one of its URLs failed, the download step fails only if some package is
\* in that case, and it succeeds when every package has an accepted URL, no
\* matter how many of its other URLs failed.
MirrorFallback ==
    /\ \A p \in Pkgs : TaskFailed(p) => AllURLsFailed(p)
    /\ ret.state = "err" => \E p \in Pkgs : AllURLsFailed(p)
    /\ (Returned /\ \A p \in Pkgs : accepted[p] # NoBase) => ret.state = "ok"

\* k-1 of k mirrors failed for every package and the download succeeded
MirrorFallbackWitness ==
    /\ ret.state = "ok"
    /\ \A p \in Pkgs :
         /\ nurls[p] = MaxURLs
         /\ tried[p] = 1..MaxURLs
         /\ accepted[p] # NoBase

\* C2: hash integrity.  Every path of the returned list names a file that
\* holds the complete body of a download whose SHA-256 equals the SHA256
\* field of the package it was downloaded for.
HashIntegrity ==
    ret.state = "ok" =>
        \A i \in 1..Len(ret.paths) :
            /\ files[ret.paths[i]].st = "full"
            /\ files[ret.paths[i]].good

SingleWriter ==
    /\ \A p, q \in Pkgs :
         (p # q /\ pc[p] = "open" /\ pc[q] = "open") => curBase[p] # curBase[q]
    /\ \A p \in Pkgs :
         accepted[p] # NoBase =>
             (files[accepted[p]].by = p /\ files[accepted[p]].st = "full")

\* C7: at most 10 package downloads are in flight at the same time.
BoundedPool == Cardinality(Active) <= 10

\* The pool is full and a further package waits in g.Go
BoundedPoolWitness ==
    /\ Cardinality(Active) = 10
    /\ submitted < npkgs

Count(s, b) == Cardinality({i \in 1..Len(s) : s[i] = b})

\* C8: the returned list is sorted and is determined by the accepted
\* download of each package alone (a sorted list is determined by the
\* number of times each path occurs in it), whatever the order in which the
\* workers appended.
SortedDeterministic ==
    ret.state = "ok" =>
        /\ IsSorted(ret.paths)
        /\ \A b \in Bases :
             Count(ret.paths, b) = Cardinality({p \in Pkgs : accepted[p] = b})

\* The workers appended in an order that is not the sorted one
SortedDeterministicWitness ==
    /\ ret.state = "ok"
    /\ ~IsSorted(packagePaths)

CtxDone == groupDone \/ callerDone

\* C10 as stated: once the context is cancelled no download attempt is
\* accepted any more and the function does not return success.
CancellationAbortsAll ==
    [][(CtxDone /\ ~Returned) =>
          (packagePaths' = packagePaths /\ ret'.state # "ok")]_vars

\* C10 (amended): once the context is cancelled all workers terminate and
\* the function returns; it returns with every worker terminated, and
\* when a package failed fatally it returns an error with no path list.
CancellationTerminates ==
    /\ [](Returned => \A p \in Pkgs : pc[p] = "done")
    /\ []((Returned /\ \E p \in Pkgs : TaskFailed(p)) =>
             (ret.state = "err" /\ ret.paths = <<>>))
    /\ (CtxDone ~> Returned)

\* A package failed fatally, the caller cancelled, and a later package
\* still returned before the error was reported
CancellationWitness ==
    /\ ret.state = "err"
    /\ callerDone
    /\ \E p \in Pkgs : TaskFailed(p) /\ p # gerr



\* C12: the error a package's task returns when all its URLs failed holds
\* the failure of every attempted URL, each exactly once: none is dropped,
\* overwritten or repeated.
AggregatedErrors ==
    \A p \in Pkgs :
        TaskFailed(p) =>
            /\ tried[p] = 1..nurls[p]
            /\ Range(errs[p]) = tried[p]
            /\ Len(errs[p]) = Cardinality(tried[p])

\* A package with several URLs failed on each of them
AggregatedErrorsWitness ==
    \E p \in Pkgs : TaskFailed(p) /\ nurls[p] >= 2 /\ Len(errs[p]) = nurls[p]

\* C14: tasks are submitted in ForEach order (a package's task is submitted
\* only after the tasks of all packages before it), and the next task waits
\* in g.Go only while 10 tasks submitted before it are still running.
FifoSubmission ==
    /\ \A p \in Pkgs : pc[p] # "idle" => \A q \in 1..p : pc[q] # "idle"
    /\ Active \subseteq 1..submitted
    /\ (ret.state = "running" /\ submitted < npkgs /\ ~ENABLED Go) =>
           Cardinality(Active) = 10

\* The last package was submitted after it had waited for a slot, and the
\* pool is full again
FifoSubmissionWitness ==
    /\ npkgs > 10
    /\ submitted = npkgs
    /\ Cardinality(Active) = 10

\* C20: a package's URLs are attempted one at a time and each at most
\* once; after the first accepted URL no further URL of the package is
\* attempted, exactly one path is recorded for the package, and the
\* failures before it do not fail the package.
OneAcceptedURL ==
    /\ [](Len(packagePaths) = Cardinality({p \in Pkgs : accepted[p] # NoBase}))
    /\ [](\A p \in Pkgs : accepted[p] # NoBase => ~TaskFailed(p))
    /\ [][\A p \in Pkgs :
            /\ accepted[p] # NoBase =>
                   (tried'[p] = tried[p] /\ pc'[p] # "open")
            /\ tried'[p] # tried[p] =>
                   /\ pc[p] = "loop"
                   /\ \E u \in (1..nurls[p]) \ tried[p] :
                          tried'[p] = tried[p] \cup {u}]_vars

\* The first URL attempted for a package with several URLs was accepted,
\* and its task returned with the other URLs never attempted
OneAcceptedURLWitness ==
    \E p \in Pkgs :
        /\ pc[p] = "done"
        /\ accepted[p] # NoBase
        /\ nurls[p] >= 2
        /\ Cardinality(tried[p]) = 1


(***************************************************************************)
(* Properties of loadPackageDB.                                            *)
(***************************************************************************)

\* C3: the SourceDateEpoch returned by loadPackageDB is the maximum Release
\* date over all components whose packages were fetched.
EpochIsMaximum ==
    lret.state = "ok" => lret.epoch = maxDate

\* Two components of one source have their package index being fetched
SameSourceConcurrent ==
    \E i, j \in Comps :
        /\ i # j
        /\ components[i] = components[j]
        /\ cpc[i] = "fetch"
        /\ cpc[j] = "fetch"

\* C6 as stated: the package indices of two components of one source are
\* never being fetched at the same time.
SequentialWithinSource == ~SameSourceConcurrent

\* C6 (amended): the package index of a component is fetched only after
\* the fetch of every source has returned successfully; from then on the
\* components of all sources, those of one source included, are fetched in
\* parallel.
ComponentsAfterSources ==
    \A i \in Slots :
        cpc[i] # "idle" => \A s \in Sources : spc[s] = "done"

\* C9: when two components yield the same key with differing SHA-256,
\* loadPackageDB returns an error and no database.
MismatchIsFatal ==
    (mismatch /\ phase = "returned") =>
        (lret.state = "err" /\ lret.db = [k \in Keys |-> NoSHA])

\* A source or a component of loadPackageDB failed to be fetched
FetchFailed ==
    \/ \E s \in Sources : spc[s] = "failed"
    \/ \E i \in Comps : cpc[i] = "failed"

\* C21: loadPackageDB returns a database only if every source and every
\* component was fetched; if a source failed no package index of a
\* component is fetched at all, and if a source or a component failed the
\* result is an error with no database and the zero epoch.
DatabaseOnlyIfAllFetched ==
    /\ lret.state = "ok" =>
          /\ \A s \in Sources : spc[s] = "done"
          /\ \A i \in Comps : cpc[i] = "done"
    /\ (\E s \in Sources : spc[s] = "failed") =>
          (csub = 0 /\ \A i \in Slots : cpc[i] = "idle")
    /\ (phase = "returned" /\ FetchFailed) =>
          /\ lret.state = "err"
          /\ lret.db = [k \in Keys |-> NoSHA]
          /\ lret.epoch = ZeroTime

\* A component failed after another one had put its packages and its date
\* into the shared state, and loadPackageDB returned neither
DatabaseOnlyIfAllFetchedWitness ==
    /\ phase = "returned"
    /\ \E i \in Comps : cpc[i] = "failed"
    /\ \E k \in Keys : packageDB[k] # NoSHA
    /\ sourceDateEpoch # ZeroTime
    /\ lret.state = "err"

\* The source phase of loadPackageDB is over and no source failed
SourcePhaseSucceeded == phase # "sources" /\ serr = NoTask

Exited == exitCode # Running

InvalidArgsExitTwo ==
    (Exited /\ ~argsValid) => exitCode = 2

\* C13 (amended): the process exits with 0 on success and with 1 on any
\* error of the run, invalid command-line arguments included; no other
\* exit code is produced.
ExitCodes ==
    Exited =>
        /\ exitCode \in {0, 1}
        /\ exitCode = 1 <=> runErr
        /\ ~argsValid => exitCode = 1
        /\ stageFailed => exitCode = 1
        /\ exitCode = 0 => buildCalls = 1

\* The command line was rejected and the process exited
ExitCodesWitness ==
    /\ Exited
    /\ ~argsValid

\* The stages of n platforms in the order of the loop
RECURSIVE Canon(_)
Canon(n) ==
    IF n = 0 THEN <<>>
    ELSE Canon(n - 1) \o
         <<<<n, "load">>, <<n, "resolve">>, <<n, "download">>, <<n, "unpack">>>>

IsPrefix(s, t) == Len(s) <= Len(t) /\ \A i \in 1..Len(s) : s[i] = t[i]

\* C15: the stages are invoked in the order load, resolve, download,
\* unpack, platform after platform; b.Build is called at most once, only
\* after all four stages of every requested platform completed, and never
\* after a stage of a platform failed.
StageOrdering ==
    /\ IsPrefix(stageLog, Canon(Len(platformStrs)))
    /\ buildCalls <= 1
    /\ buildCalls = 1 =>
          /\ stageLog = Canon(Len(platformStrs))
          /\ ~stageFailed

\* b.Build was called for a build of several platforms
StageOrderingWitness ==
    /\ buildCalls = 1
    /\ Len(platformStrs) >= 2

\* b.Build was called with one entry per requested platform, in request
\* order, each with the directory of its platform holding its archives
EntryPerPlatform ==
    /\ Len(buildArg.opts) = Len(platformStrs)
    /\ \A i \in 1..Len(platformStrs) :
         LET o == buildArg.opts[i] IN
         /\ o.platform = platformStrs[i]
         /\ o.dir # TempDirItself
         /\ o.dpkg = o.dir
         /\ o.data = o.dir

\* C16: b.Build receives one entry per requested platform, in request
\* order, each with a build context directory of its own holding its
\* dpkg database archive and data archives.
OwnDirPerEntry ==
    buildCalls = 1 =>
        /\ EntryPerPlatform
        /\ \A i, j \in 1..Len(buildArg.opts) :
             i # j => buildArg.opts[i].dir # buildArg.opts[j].dir

\* C17 as stated: with SOURCE_DATE_EPOCH set, the SourceDateEpoch given to
\* b.Build is that value.
EnvEpochOverrides ==
    (buildCalls = 1 /\ envEpoch # 0) => buildArg.epoch = envEpoch

\* C17 (amended): the SourceDateEpoch given to b.Build is the latest of
\* the epochs loadPackageDB returned for the requested platforms, whether
\* SOURCE_DATE_EPOCH is set or not.
EpochFromSources ==
    buildCalls = 1 => buildArg.epoch = maxLoaded

\* SOURCE_DATE_EPOCH is set to another value than the one given to b.Build
EpochFromSourcesWitness ==
    /\ buildCalls = 1
    /\ envEpoch # 0
    /\ buildArg.epoch # envEpoch
    /\ buildArg.epoch # ZeroTime

\* C19: the seeds given to resolve.Resolve are "immutos" unless --dev, the
\* name of every Priority "required" package of the universe unless
\* options.omitRequired is set, and every entry of packages.include, and
\* nothing else; the exclude list is passed unchanged.
SeedsOfResolve ==
    resolveArgs.called =>
        LET seeds == Range(resolveArgs.seeds) IN
        /\ seeds = (IF dev THEN {} ELSE {Immutos})
                      \cup (IF options = "omit" THEN {} ELSE universe)
                      \cup Range(include)
        /\ options # "omit" => universe \subseteq seeds
        /\ options = "omit" =>
              seeds \subseteq Range(include) \cup (IF dev THEN {} ELSE {Immutos})
        /\ resolveArgs.exclude = exclude

\* Resolve was called with omitRequired set for a universe that has
\* required packages, none of which is included by the recipe
SeedsOfResolveWitness ==
    /\ resolveArgs.called
    /\ options = "omit"
    /\ universe # {}
    /\ universe \cap Range(include) = {}
    /\ ~dev

(***************************************************************************)
(* Properties of slimify.                                                  *)
(***************************************************************************)
\* /usr/share/doc/<pkg>/copyright
IsCopyrightFile(path) ==
    Len(path) = 4 /\ path[1] = Doc /\ path[3] = "/" /\ path[4] = "copyright"

=============================================================================
